---- MODULE Spec2Model ----
(***************************************************************************)
(* Model of api/saveData.js: one serverless request handler that reads and *)
(* writes a JSON file of a GitHub repository through the Contents API.     *)
(*                                                                         *)
(* Text is a sequence of one-character strings.  A JSON value is a record  *)
(* [t, n, s, k]: t the type tag, n the number, s the string, k the members *)
(* (records [key, val]; an array member has the empty key).                *)
(***************************************************************************)
EXTENDS Integers, Sequences, FiniteSets, TLC

(***************************************************************************)
(* Characters, bytes and base64 (Buffer.from(str).toString('base64')).     *)
(***************************************************************************)
Ascii ==
  <<
     " ", "!", "\"", "#", "$", "%", "&", "'", "(", ")", "*", "+", ",", "-", ".", "/",
     "0", "1", "2", "3", "4", "5", "6", "7", "8", "9", ":", ";", "<", "=", ">", "?",
     "@", "A", "B", "C", "D", "E", "F", "G", "H", "I", "J", "K", "L", "M", "N", "O",
     "P", "Q", "R", "S", "T", "U", "V", "W", "X", "Y", "Z", "[", "\\", "]", "^", "_",
     "grave", "a", "b", "c", "d", "e", "f", "g", "h", "i", "j", "k", "l", "m", "n", "o",
     "p", "q", "r", "s", "t", "u", "v", "w", "x", "y", "z", "{", "|", "}", "~"
  >>

B64Alphabet ==
  <<
     "A", "B", "C", "D", "E", "F", "G", "H", "I", "J", "K", "L", "M", "N", "O", "P",
     "Q", "R", "S", "T", "U", "V", "W", "X", "Y", "Z", "a", "b", "c", "d", "e", "f",
     "g", "h", "i", "j", "k", "l", "m", "n", "o", "p", "q", "r", "s", "t", "u", "v",
     "w", "x", "y", "z", "0", "1", "2", "3", "4", "5", "6", "7", "8", "9", "+", "/"
  >>

\* The UTF-8 byte of a character (the texts of the model are ASCII, one byte
\* each; code 96 is spelled out, it cannot be written as a string).
CharCode(c) ==
  IF c = "\n" THEN 10 ELSE 31 + (CHOOSE i \in 1..Len(Ascii) : Ascii[i] = c)

CodeChar(b) ==
  IF b = 10 THEN "\n" ELSE Ascii[b - 31]

\* Buffer.from(contentStr): the bytes of the text.
BufferFrom(str) ==
  [i \in 1..Len(str) |-> CharCode(str[i])]

\* The text of a byte sequence (Response.text(), and the remote's decoding).
BytesToText(bytes) ==
  [i \in 1..Len(bytes) |-> CodeChar(bytes[i])]

RECURSIVE Base64Bytes(_)
\* buf.toString('base64'): 3 bytes -> 4 sextets, '=' padding on the last group.
Base64Bytes(b) ==
  IF Len(b) = 0 THEN <<>>
  ELSE IF Len(b) = 1 THEN
    << B64Alphabet[(b[1] \div 4) + 1],
       B64Alphabet[((b[1] % 4) * 16) + 1], "=", "=" >>
  ELSE IF Len(b) = 2 THEN
    << B64Alphabet[(b[1] \div 4) + 1],
       B64Alphabet[((b[1] % 4) * 16 + (b[2] \div 16)) + 1],
       B64Alphabet[((b[2] % 16) * 4) + 1], "=" >>
  ELSE
    << B64Alphabet[(b[1] \div 4) + 1],
       B64Alphabet[((b[1] % 4) * 16 + (b[2] \div 16)) + 1],
       B64Alphabet[((b[2] % 16) * 4 + (b[3] \div 64)) + 1],
       B64Alphabet[(b[3] % 64) + 1] >>
    \o Base64Bytes(SubSeq(b, 4, Len(b)))

\* Buffer.from(contentStr).toString('base64')
ToBase64(str) ==
  Base64Bytes(BufferFrom(str))

Sextet(c) ==
  (CHOOSE i \in 1..64 : B64Alphabet[i] = c) - 1

RECURSIVE Base64Decode(_)
\* The Contents API decoding the "content" field of a PUT back into file bytes.
Base64Decode(s) ==
  IF Len(s) < 4 THEN <<>>
  ELSE
    LET a == Sextet(s[1])
        b == Sextet(s[2])
        rest == Base64Decode(SubSeq(s, 5, Len(s)))
    IN  IF s[3] = "=" THEN << a * 4 + (b \div 16) >>
        ELSE IF s[4] = "=" THEN
          << a * 4 + (b \div 16), (b % 16) * 16 + (Sextet(s[3]) \div 4) >>
        ELSE
          << a * 4 + (b \div 16),
             (b % 16) * 16 + (Sextet(s[3]) \div 4),
             (Sextet(s[3]) % 4) * 64 + Sextet(s[4]) >> \o rest

(***************************************************************************)
(* JSON values.                                                            *)
(***************************************************************************)
JVal(tag, num, str, kids) ==
  [t |-> tag, n |-> num, s |-> str, k |-> kids]

\* req.body of a request that carries no body
JUndefined == JVal("undefined", 0, <<>>, <<>>)
JNull == JVal("null", 0, <<>>, <<>>)
JTrue == JVal("true", 0, <<>>, <<>>)
JFalse == JVal("false", 0, <<>>, <<>>)
JNum(x) == JVal("number", x, <<>>, <<>>)
JStr(x) == JVal("string", 0, x, <<>>)
JArr(items) == JVal("array", 0, <<>>, [i \in 1..Len(items) |-> [key |-> <<>>, val |-> items[i]]])
JObj(members) == JVal("object", 0, <<>>, members)
Member(name, value) == [key |-> name, val |-> value]

Digits == <<"0", "1", "2", "3", "4", "5", "6", "7", "8", "9">>
IsDigit(c) == \E i \in 1..10 : Digits[i] = c
DigitVal(c) == (CHOOSE i \in 1..10 : Digits[i] = c) - 1

RECURSIVE NatText(_)
NatText(x) ==
  IF x < 10 THEN << Digits[x + 1] >>
  ELSE NatText(x \div 10) \o << Digits[(x % 10) + 1] >>

NumberText(x) ==
  IF x < 0 THEN <<"-">> \o NatText(-x) ELSE NatText(x)

RECURSIVE EscapeQuoteOnly(_)
\* Escape with the backslash left as it is.
EscapeQuoteOnly(str) ==
  IF Len(str) = 0 THEN <<>>
  ELSE (CASE Head(str) = "\"" -> <<"\\", "\"">>
          [] Head(str) = "\n" -> <<"\\", "n">>
          [] OTHER -> << Head(str) >>)
       \o EscapeQuoteOnly(Tail(str))

RECURSIVE Escape(_)
\* The body of a JSON string literal: quote, backslash and newline escaped.
Escape(str) ==
  IF Len(str) = 0 THEN <<>>
  ELSE (CASE Head(str) = "\"" -> <<"\\", "\"">>
          [] Head(str) = "\\" -> <<"\\", "\\">>
          [] Head(str) = "\n" -> <<"\\", "n">>
          [] OTHER -> << Head(str) >>)
       \o Escape(Tail(str))

Quote(str) ==
  <<"\"">> \o Escape(str) \o <<"\"">>

RECURSIVE Indent(_)
\* The gap of JSON.stringify(value, null, 2) at a nesting depth.
Indent(depth) ==
  IF depth = 0 THEN <<>> ELSE <<" ", " ">> \o Indent(depth - 1)

RECURSIVE StringifyAt(_, _)
RECURSIVE StringifyMembers(_, _, _, _)
\* The members of an array or object, one per line, separated by ",\n".
StringifyMembers(kids, i, depth, isObj) ==
  IF i > Len(kids) THEN <<>>
  ELSE Indent(depth)
       \o (IF isObj THEN Quote(kids[i].key) \o <<":", " ">> ELSE <<>>)
       \o StringifyAt(kids[i].val, depth)
       \o (IF i < Len(kids) THEN <<",", "\n">> ELSE <<>>)
       \o StringifyMembers(kids, i + 1, depth, isObj)

StringifyAt(v, depth) ==
  CASE v.t = "null" -> <<"n", "u", "l", "l">>
    [] v.t = "true" -> <<"t", "r", "u", "e">>
    [] v.t = "false" -> <<"f", "a", "l", "s", "e">>
    [] v.t = "number" -> NumberText(v.n)
    [] v.t = "string" -> Quote(v.s)
    [] v.t = "array" ->
         IF Len(v.k) = 0 THEN <<"[", "]">>
         ELSE <<"[", "\n">> \o StringifyMembers(v.k, 1, depth + 1, FALSE)
              \o <<"\n">> \o Indent(depth) \o <<"]">>
    [] v.t = "object" ->
         IF Len(v.k) = 0 THEN <<"{", "}">>
         ELSE <<"{", "\n">> \o StringifyMembers(v.k, 1, depth + 1, TRUE)
              \o <<"\n">> \o Indent(depth) \o <<"}">>

\* JSON.stringify(body, null, 2); of undefined it is undefined, not a text.
JSONStringify(v) ==
  StringifyAt(v, 0)

(***************************************************************************)
(* JSON.parse, as a recursive-descent parser over the text.  A result is   *)
(* [ok, v, i]: whether a value was read, the value, and the next position. *)
(* Numbers are integers and string escapes are \" \\ \n, which is what the *)
(* documents of the model need; everything else is rejected as JSON.parse  *)
(* rejects it.                                                             *)
(***************************************************************************)
ParseFail == [ok |-> FALSE, v |-> JNull, i |-> 0]
ParseOk(value, next) == [ok |-> TRUE, v |-> value, i |-> next]

IsWs(c) == c = " " \/ c = "\n"

RECURSIVE SkipWs(_, _)
SkipWs(s, i) ==
  IF i <= Len(s) /\ IsWs(s[i]) THEN SkipWs(s, i + 1) ELSE i

\* Whether the text holds the word at position i.
HasWord(s, i, word) ==
  /\ i + Len(word) - 1 <= Len(s)
  /\ SubSeq(s, i, i + Len(word) - 1) = word

RECURSIVE ParseDigits(_, _, _)
\* Digits from i on: [n, i] the number read so far and the next position.
ParseDigits(s, i, acc) ==
  IF i <= Len(s) /\ IsDigit(s[i])
  THEN ParseDigits(s, i + 1, acc * 10 + DigitVal(s[i]))
  ELSE [n |-> acc, i |-> i]

\* -? (0 | [1-9][0-9]*): a leading zero ends the number.
ParseNumber(s, i) ==
  LET neg == s[i] = "-"
      j == IF neg THEN i + 1 ELSE i
  IN  IF j > Len(s) \/ ~IsDigit(s[j]) THEN ParseFail
      ELSE IF s[j] = "0" THEN ParseOk(JNum(0), j + 1)
      ELSE LET d == ParseDigits(s, j, 0)
           IN  ParseOk(JNum(IF neg THEN -d.n ELSE d.n), d.i)

RECURSIVE ParseChars(_, _, _)
\* The characters of a string literal after its opening quote.
ParseChars(s, i, acc) ==
  IF i > Len(s) THEN [ok |-> FALSE, s |-> <<>>, i |-> 0]
  ELSE IF s[i] = "\"" THEN [ok |-> TRUE, s |-> acc, i |-> i + 1]
  ELSE IF s[i] = "\n" THEN [ok |-> FALSE, s |-> <<>>, i |-> 0]
  ELSE IF s[i] = "\\" THEN
    IF i + 1 > Len(s) THEN [ok |-> FALSE, s |-> <<>>, i |-> 0]
    ELSE IF s[i + 1] = "\"" THEN ParseChars(s, i + 2, Append(acc, "\""))
    ELSE IF s[i + 1] = "\\" THEN ParseChars(s, i + 2, Append(acc, "\\"))
    ELSE IF s[i + 1] = "n" THEN ParseChars(s, i + 2, Append(acc, "\n"))
    ELSE [ok |-> FALSE, s |-> <<>>, i |-> 0]
  ELSE ParseChars(s, i + 1, Append(acc, s[i]))

\* An object keeps one member per key: a repeated key replaces the value.
PutMember(kids, name, value) ==
  IF \E x \in 1..Len(kids) : kids[x].key = name
  THEN [x \in 1..Len(kids) |->
          IF kids[x].key = name THEN Member(name, value) ELSE kids[x]]
  ELSE Append(kids, Member(name, value))

RECURSIVE ParseValue(_, _)
RECURSIVE ParseElements(_, _, _)
RECURSIVE ParseMembers(_, _, _)

\* After "[" or ",": a value, then "," or "]".
ParseElements(s, i, acc) ==
  LET e == ParseValue(s, i)
      j == SkipWs(s, e.i)
  IN  IF ~e.ok \/ j > Len(s) THEN ParseFail
      ELSE IF s[j] = "," THEN ParseElements(s, j + 1, Append(acc, Member(<<>>, e.v)))
      ELSE IF s[j] = "]"
      THEN ParseOk(JVal("array", 0, <<>>, Append(acc, Member(<<>>, e.v))), j + 1)
      ELSE ParseFail

\* After "{" or ",": a string key, ":", a value, then "," or "}".
ParseMembers(s, i, acc) ==
  LET j == SkipWs(s, i)
  IN  IF j > Len(s) \/ s[j] # "\"" THEN ParseFail
      ELSE
        LET name == ParseChars(s, j + 1, <<>>)
            c == SkipWs(s, name.i)
        IN  IF ~name.ok \/ c > Len(s) \/ s[c] # ":" THEN ParseFail
            ELSE
              LET e == ParseValue(s, c + 1)
                  d == SkipWs(s, e.i)
              IN  IF ~e.ok \/ d > Len(s) THEN ParseFail
                  ELSE IF s[d] = ","
                  THEN ParseMembers(s, d + 1, PutMember(acc, name.s, e.v))
                  ELSE IF s[d] = "}"
                  THEN ParseOk(JObj(PutMember(acc, name.s, e.v)), d + 1)
                  ELSE ParseFail

ParseValue(s, i) ==
  LET j == SkipWs(s, i)
  IN  IF j > Len(s) THEN ParseFail
      ELSE IF s[j] = "n"
      THEN IF HasWord(s, j, <<"n", "u", "l", "l">>) THEN ParseOk(JNull, j + 4) ELSE ParseFail
      ELSE IF s[j] = "t"
      THEN IF HasWord(s, j, <<"t", "r", "u", "e">>) THEN ParseOk(JTrue, j + 4) ELSE ParseFail
      ELSE IF s[j] = "f"
      THEN IF HasWord(s, j, <<"f", "a", "l", "s", "e">>) THEN ParseOk(JFalse, j + 5) ELSE ParseFail
      ELSE IF s[j] = "-" \/ IsDigit(s[j]) THEN ParseNumber(s, j)
      ELSE IF s[j] = "\"" THEN
        LET str == ParseChars(s, j + 1, <<>>)
        IN  IF str.ok THEN ParseOk(JStr(str.s), str.i) ELSE ParseFail
      ELSE IF s[j] = "[" THEN
        LET c == SkipWs(s, j + 1)
        IN  IF c <= Len(s) /\ s[c] = "]" THEN ParseOk(JArr(<<>>), c + 1)
            ELSE ParseElements(s, j + 1, <<>>)
      ELSE IF s[j] = "{" THEN
        LET c == SkipWs(s, j + 1)
        IN  IF c <= Len(s) /\ s[c] = "}" THEN ParseOk(JObj(<<>>), c + 1)
            ELSE ParseMembers(s, j + 1, <<>>)
      ELSE ParseFail

\* JSON.parse(text): [ok, v]; ok is FALSE where JSON.parse throws.
JSONParse(text) ==
  LET p == ParseValue(text, 1)
  IN  IF p.ok /\ SkipWs(text, p.i) > Len(text)
      THEN [ok |-> TRUE, v |-> p.v]
      ELSE [ok |-> FALSE, v |-> JNull]

(***************************************************************************)
(* Bounds and the inputs the requests are drawn from.                      *)
(***************************************************************************)
\* Number of handler invocations in a behaviour (they may run concurrently).
NumReq == 2

Req == 1..NumReq

RoomsDoc == JObj(<< Member(<<"r", "o", "o", "m", "s">>, JNum(3)) >>)
NestedDoc == JArr(<< JStr(<<"a", "\"", "\\">>), JObj(<< Member(<<"k">>, JArr(<< JNum(-10), JNull >>)) >>) >>)

\* The JSON documents a POST may carry as req.body.
Docs == {RoomsDoc, NestedDoc}

\* Texts the backing file may hold before any request: JSON or not.
HelloText == <<"h", "e", "l", "l", "o">>
TruncatedText == <<"{", "\"", "r", "o", "o", "m", "s", "\"", ":">>
InitialTexts == {JSONStringify(RoomsDoc), HelloText, TruncatedText, <<>>}

\* What a GET of a directory path returns: the listing, a JSON array.
DirListingDoc == JArr(<< JObj(<< Member(<<"n", "a", "m", "e">>, JStr(<<"a">>)) >>) >>)
DirListing == JSONStringify(DirListingDoc)

\* An environment variable or query parameter: unset, or a string.
Unset == [set |-> FALSE, val |-> ""]
Str(x) == [set |-> TRUE, val |-> x]

\* JavaScript truthiness of an optional string: undefined and "" are falsy.
Truthy(x) == x.set /\ x.val # ""

\* a || b
OrElse(a, b) == IF Truthy(a) THEN a.val ELSE b

\* meta.sha when the metadata has no sha member (undefined).
NoSha == 0

(***************************************************************************)
(* State.                                                                  *)
(***************************************************************************)
VARIABLES
  env,        \* process.env: GITHUB_TOKEN, GITHUB_REPO, GITHUB_FILE_PATH, BRANCH
  remote,     \* the Contents API's view of the path: kind, content, sha
  nextSha,    \* the sha the next commit gets
  req,        \* req[i]: method, body, query.message of invocation i
  pc,         \* pc[i]: "idle", the await the invocation is suspended at, or "done"
  calls,      \* calls[i]: the outbound fetches of invocation i, in order
  inflight,   \* inflight[i]: outbound fetches issued and not yet settled
  r,          \* r[i]: the response of the content GET (line 26)
  metaR,      \* metaR[i]: the response of the metadata GET (line 42)
  putR,       \* putR[i]: the response of the PUT (line 60)
  res,        \* res[i]: the response sent to the caller: status, headers, body
  committed,  \* committed[i]: the remote committed the PUT of invocation i
  stale,      \* stale[i]: the PUT of i reached the remote with an outdated sha
  lastWrite,  \* the invocation whose PUT the remote committed last (0: none)
  startedAfter, \* startedAfter[i]: lastWrite when invocation i began
  readAfter   \* readAfter[i]: lastWrite when the content GET of i was served

vars ==
  << env, remote, nextSha, req, pc, calls, inflight, r, metaR, putR, res,
     committed, stale, lastWrite, startedAfter, readAfter >>

NoRequest == [method |-> "", body |-> JUndefined, message |-> Unset]
NoResponse == [status |-> 0, json |-> FALSE, sha |-> NoSha, text |-> <<>>]
NoRes == [status |-> 0, headers |-> {}, body |-> [none |-> TRUE]]

\* Response.ok
Ok(resp) == resp.status >= 200 /\ resp.status <= 299

(***************************************************************************)
(* The remote Contents API (outside the repository; the handler's calls    *)
(* are its only users here).                                               *)
(***************************************************************************)
\* Statuses the API answers with when it fails for reasons of its own
\* (a gateway error); the request is then not processed.
UpstreamFailures == {502}

\* GET with Accept: raw.
RemoteGetRaw(store) ==
  CASE store.kind = "absent" -> [status |-> 404, json |-> TRUE, sha |-> NoSha, text |-> <<>>]
    [] store.kind = "file" -> [status |-> 200, json |-> FALSE, sha |-> NoSha, text |-> store.content]
    [] store.kind = "dir" -> [status |-> 200, json |-> TRUE, sha |-> NoSha, text |-> DirListing]

\* GET with Accept: json: the metadata object of a file (with its sha), the
\* listing of a directory (an array: no sha member), 404 when nothing is there.
RemoteGetMeta(store) ==
  CASE store.kind = "absent" -> [status |-> 404, json |-> TRUE, sha |-> NoSha, text |-> <<>>]
    [] store.kind = "file" -> [status |-> 200, json |-> TRUE, sha |-> store.sha, text |-> <<>>]
    [] store.kind = "dir" -> [status |-> 200, json |-> TRUE, sha |-> NoSha, text |-> <<>>]

\* The status of a PUT: a file is created when nothing is there and no sha is
\* given (201), replaced when the sha given is its current one (200); a missing
\* sha is 422 and an outdated one 409.
RemotePutStatus(store, putBody) ==
  CASE store.kind = "absent" -> IF "sha" \in DOMAIN putBody THEN 422 ELSE 201
    [] store.kind = "dir" -> 422
    [] store.kind = "file" ->
         IF "sha" \notin DOMAIN putBody THEN 422
         ELSE IF putBody.sha = store.sha THEN 200 ELSE 409

\* The path after a committed PUT.
RemoteCommit(putBody, newSha) ==
  [kind |-> "file", content |-> BytesToText(Base64Decode(putBody.content)), sha |-> newSha]

(***************************************************************************)
(* The handler (api/saveData.js).  An invocation runs from one await to    *)
(* the next in one step; the step that settles a fetch also holds what the *)
(* remote did to serve it.                                                 *)
(***************************************************************************)
token == env.GITHUB_TOKEN
repo == env.GITHUB_REPO
filePath == OrElse(env.GITHUB_FILE_PATH, "data.json")
branch == OrElse(env.BRANCH, "main")

\* ConfigMissing with && for ||.
ConfigMissingBoth ==
  ~Truthy(token) /\ ~Truthy(repo)

\* !token || !repo
ConfigMissing ==
  ~Truthy(token) \/ ~Truthy(repo)

\* res.status(code).json(body), with the headers set before it.
Send(code, hdrs, payload) ==
  [status |-> code, headers |-> hdrs, body |-> payload]

MissingEnv ==
  Send(500, {}, [error |-> "Missing GITHUB_TOKEN or GITHUB_REPO environment variables"])

\* The catch block: any throw inside the try ends the request with 500.
ServerError ==
  Send(500, {}, [error |-> "Server error"])

\* MethodNotAllowed without the setHeader call.
MethodNotAllowedNoHeader ==
  Send(405, {}, [error |-> "Method not allowed"])

MethodNotAllowed ==
  Send(405, {<<"Allow", "GET,POST">>}, [error |-> "Method not allowed"])

apiBase ==
  [repo |-> repo.val, path |-> filePath, ref |-> branch]

putUrl ==
  [repo |-> repo.val, path |-> filePath]

FetchContent ==
  [method |-> "GET", url |-> apiBase, accept |-> "application/vnd.github.v3.raw", body |-> <<>>]

FetchMeta ==
  [method |-> "GET", url |-> apiBase, accept |-> "application/vnd.github.v3+json", body |-> <<>>]

\* PutBody with the test of sha inverted.
PutBodyInverted(request, sha) ==
  LET message == OrElse(request.message, "Update data.json via app")
      b64 == ToBase64(JSONStringify(request.body))
  IN  IF sha = NoSha
      THEN [message |-> message, content |-> b64, branch |-> branch, sha |-> sha]
      ELSE [message |-> message, content |-> b64, branch |-> branch]

\* putBody: message, content and branch, and sha only when it is truthy.
PutBody(request, sha) ==
  LET message == OrElse(request.message, "Update data.json via app")
      b64 == ToBase64(JSONStringify(request.body))
  IN  IF sha # NoSha
      THEN [message |-> message, content |-> b64, branch |-> branch, sha |-> sha]
      ELSE [message |-> message, content |-> b64, branch |-> branch]

FetchPut(putBody) ==
  [method |-> "PUT", url |-> putUrl, accept |-> "application/vnd.github.v3+json", body |-> putBody]

\* AfterGet with the inner try/catch missing: a parse failure reaches the
\* outer catch.
AfterGetStrict(resp) ==
  IF ~Ok(resp) THEN Send(resp.status, {}, [error |-> "GitHub GET failed"])
  ELSE LET obj == JSONParse(resp.text)
       IN  IF obj.ok THEN Send(200, {}, obj.v)
           ELSE ServerError

\* Lines 27-36: what a settled content GET is answered with.
AfterGet(resp) ==
  IF ~Ok(resp) THEN Send(resp.status, {}, [error |-> "GitHub GET failed"])
  ELSE LET obj == JSONParse(resp.text)
       IN  IF obj.ok THEN Send(200, {}, obj.v)
           ELSE Send(200, {}, [raw |-> resp.text])

\* MetaEnds without the early return on !metaR.ok.
MetaEndsIgnoringStatus(request, resp) ==
  ~resp.json \/ request.body = JUndefined

\* Lines 43-49 end the request: the metadata GET failed, metaR.json() threw,
\* or Buffer.from(undefined) threw (JSON.stringify of no body is undefined).
MetaEnds(request, resp) ==
  ~Ok(resp) \/ ~resp.json \/ request.body = JUndefined

AfterMetaEnd(resp) ==
  IF ~Ok(resp) THEN Send(resp.status, {}, [error |-> "Could not fetch file metadata"])
  ELSE ServerError

\* Lines 66-68: what a settled PUT is answered with; putR.json() comes first.
AfterPut(resp) ==
  IF ~resp.json THEN ServerError
  ELSE IF ~Ok(resp) THEN Send(resp.status, {}, [error |-> "GitHub PUT failed"])
  ELSE Send(200, {}, [message |-> "Data saved to GitHub"])

Finish(i, answer) ==
  /\ res' = [res EXCEPT ![i] = answer]
  /\ pc' = [pc EXCEPT ![i] = "done"]

\* handler(req, res) up to its first await (lines 12-26, 39-42, 71-74).
Invoke(i, request) ==
  /\ pc[i] = "idle"
  /\ \A j \in Req : j < i => pc[j] # "idle"
  /\ req' = [req EXCEPT ![i] = request]
  /\ IF ConfigMissing THEN
       /\ Finish(i, MissingEnv)
       /\ UNCHANGED << calls, inflight >>
     ELSE IF request.method = "GET" THEN
       /\ calls' = [calls EXCEPT ![i] = Append(@, FetchContent)]
       /\ inflight' = [inflight EXCEPT ![i] = @ + 1]
       /\ pc' = [pc EXCEPT ![i] = "awaitGet"]
       /\ UNCHANGED res
     ELSE IF request.method = "POST" THEN
       /\ calls' = [calls EXCEPT ![i] = Append(@, FetchMeta)]
       /\ inflight' = [inflight EXCEPT ![i] = @ + 1]
       /\ pc' = [pc EXCEPT ![i] = "awaitMeta"]
       /\ UNCHANGED res
     ELSE
       /\ Finish(i, MethodNotAllowed)
       /\ UNCHANGED << calls, inflight >>
  /\ startedAfter' = [startedAfter EXCEPT ![i] = lastWrite]
  /\ UNCHANGED << env, remote, nextSha, r, metaR, putR, committed, stale,
                  lastWrite, readAfter >>

\* The content GET settles with a response: lines 26-36.
GetSettles(i, failed, status) ==
  /\ pc[i] = "awaitGet"
  /\ LET resp == IF failed
                 THEN [status |-> status, json |-> FALSE, sha |-> NoSha, text |-> <<>>]
                 ELSE RemoteGetRaw(remote)
     IN  /\ r' = [r EXCEPT ![i] = resp]
         /\ Finish(i, AfterGet(resp))
  /\ inflight' = [inflight EXCEPT ![i] = @ - 1]
  /\ readAfter' = [readAfter EXCEPT ![i] = lastWrite]
  /\ UNCHANGED << env, remote, nextSha, req, calls, metaR, putR, committed,
                  stale, lastWrite, startedAfter >>

\* The metadata GET settles with a response: lines 42-64.
MetaSettles(i, failed, status, parses) ==
  /\ pc[i] = "awaitMeta"
  /\ LET resp == IF failed
                 THEN [status |-> status, json |-> parses, sha |-> NoSha, text |-> <<>>]
                 ELSE [RemoteGetMeta(remote) EXCEPT !.json = parses]
     IN  /\ metaR' = [metaR EXCEPT ![i] = resp]
         /\ IF MetaEnds(req[i], resp) THEN
              /\ Finish(i, AfterMetaEnd(resp))
              /\ inflight' = [inflight EXCEPT ![i] = @ - 1]
              /\ UNCHANGED calls
            ELSE
              /\ calls' = [calls EXCEPT ![i] = Append(@, FetchPut(PutBody(req[i], resp.sha)))]
              /\ inflight' = inflight
              /\ pc' = [pc EXCEPT ![i] = "awaitPut"]
              /\ UNCHANGED res
  /\ UNCHANGED << env, remote, nextSha, req, r, putR, committed, stale,
                  lastWrite, startedAfter, readAfter >>

\* The PUT settles with a response: lines 60-68.  Unless the API failed on
\* its own, the remote checks the sha and commits or rejects.
PutSettles(i, failed, status, parses) ==
  /\ pc[i] = "awaitPut"
  /\ LET putBody == calls[i][Len(calls[i])].body
         code == IF failed THEN status ELSE RemotePutStatus(remote, putBody)
         resp == [status |-> code, json |-> parses, sha |-> NoSha, text |-> <<>>]
         commits == ~failed /\ Ok(resp)
     IN  /\ putR' = [putR EXCEPT ![i] = resp]
         /\ Finish(i, AfterPut(resp))
         /\ remote' = IF commits THEN RemoteCommit(putBody, nextSha) ELSE remote
         /\ nextSha' = IF commits THEN nextSha + 1 ELSE nextSha
         /\ committed' = [committed EXCEPT ![i] = commits]
         /\ lastWrite' = IF commits THEN i ELSE lastWrite
         /\ stale' = [stale EXCEPT ![i] =
                        /\ ~failed
                        /\ remote.kind = "file"
                        /\ "sha" \in DOMAIN putBody
                        /\ putBody.sha # remote.sha]
  /\ inflight' = [inflight EXCEPT ![i] = @ - 1]
  /\ UNCHANGED << env, req, calls, r, metaR, startedAfter, readAfter >>

\* A fetch rejects (the connection fails before the remote is reached): the
\* catch block answers 500.  Once a response has arrived, reading its body
\* fails only where the body is not the JSON that .json() expects.
FetchRejects(i) ==
  /\ pc[i] \in {"awaitGet", "awaitMeta", "awaitPut"}
  /\ Finish(i, ServerError)
  /\ inflight' = [inflight EXCEPT ![i] = @ - 1]
  /\ readAfter' = [readAfter EXCEPT ![i] = lastWrite]
  /\ UNCHANGED << env, remote, nextSha, req, calls, r, metaR, putR, committed,
                  stale, lastWrite, startedAfter >>

(***************************************************************************)
(* The specification.                                                      *)
(***************************************************************************)
\* process.env: every variable set (the file path left to its default), or
\* the token or the repository unset or empty.
FullEnv ==
  [GITHUB_TOKEN |-> Str("ghp_token"), GITHUB_REPO |-> Str("owner/repo"),
   GITHUB_FILE_PATH |-> Unset, BRANCH |-> Str("dev")]

Environments ==
  { FullEnv,
    [FullEnv EXCEPT !.GITHUB_TOKEN = Unset],
    [FullEnv EXCEPT !.GITHUB_TOKEN = Str("")],
    [FullEnv EXCEPT !.GITHUB_REPO = Unset],
    [FullEnv EXCEPT !.GITHUB_REPO = Str(""), !.BRANCH = Unset] }

\* The requests a caller may send: method, body and the message query
\* parameter.
Requests ==
  { [method |-> "GET", body |-> JUndefined, message |-> Unset],
    [method |-> "DELETE", body |-> JUndefined, message |-> Unset],
    [method |-> "POST", body |-> JUndefined, message |-> Unset],
    [method |-> "POST", body |-> RoomsDoc, message |-> Unset],
    [method |-> "POST", body |-> RoomsDoc, message |-> Str("save")],
    [method |-> "POST", body |-> NestedDoc, message |-> Unset] }

Init ==
  /\ env \in Environments
  /\ remote \in {[kind |-> "absent", content |-> <<>>, sha |-> NoSha],
                 [kind |-> "dir", content |-> <<>>, sha |-> NoSha]}
                \cup {[kind |-> "file", content |-> t, sha |-> 1] : t \in InitialTexts}
  /\ nextSha = 2
  /\ req = [i \in Req |-> NoRequest]
  /\ pc = [i \in Req |-> "idle"]
  /\ calls = [i \in Req |-> <<>>]
  /\ inflight = [i \in Req |-> 0]
  /\ r = [i \in Req |-> NoResponse]
  /\ metaR = [i \in Req |-> NoResponse]
  /\ putR = [i \in Req |-> NoResponse]
  /\ res = [i \in Req |-> NoRes]
  /\ committed = [i \in Req |-> FALSE]
  /\ stale = [i \in Req |-> FALSE]
  /\ lastWrite = 0
  /\ startedAfter = [i \in Req |-> 0]
  /\ readAfter = [i \in Req |-> 0]

Next ==
  \E i \in Req :
    \/ \E request \in Requests :
         Invoke(i, request)
    \/ \E failed \in BOOLEAN, status \in UpstreamFailures :
         GetSettles(i, failed, status)
    \/ \E failed \in BOOLEAN, status \in UpstreamFailures, parses \in BOOLEAN :
         /\ failed => parses
         /\ MetaSettles(i, failed, status, parses)
    \/ \E failed \in BOOLEAN, status \in UpstreamFailures, parses \in BOOLEAN :
         PutSettles(i, failed, status, parses)
    \/ FetchRejects(i)

Spec == Init /\ [][Next]_vars

(***************************************************************************)
(* Properties.                                                             *)
(***************************************************************************)
Done(i) == pc[i] = "done"
Started(i) == pc[i] # "idle"
Settled(resp) == resp.status # 0

\* The positions of the PUTs among the outbound calls of an invocation.
Puts(i) == {k \in 1..Len(calls[i]) : calls[i][k].method = "PUT"}

\* The required environment variables as the operator sets them.
RequiredEnvPresent ==
  /\ env.GITHUB_TOKEN \notin {Unset, Str("")}
  /\ env.GITHUB_REPO \notin {Unset, Str("")}

\* C1: a POST with valid configuration whose metadata fetch returns 404 (no
\* file yet) goes on to issue a PUT whose body has no sha field.
C1_FirstWriteProceeds ==
  \A i \in Req :
    (req[i].method = "POST" /\ RequiredEnvPresent /\ metaR[i].status = 404)
      => \E k \in Puts(i) : "sha" \notin DOMAIN calls[i][k].body

\* C2: a POST whose sha has gone stale by the time its PUT reaches the remote
\* is rejected there, the remote's file is not replaced by it, the handler
\* issues that PUT once only, and the caller receives the upstream non-200
\* status.
C2_StaleWriteRejectedAndRelayed ==
  \A i \in Req :
    stale[i] =>
      /\ Done(i)
      /\ ~committed[i]
      /\ ~Ok(putR[i])
      /\ Cardinality(Puts(i)) = 1
      /\ res[i].status # 200
      /\ res[i].status = putR[i].status

\* The part of C2 that is the remote's and the handler's control flow: a stale
\* PUT is rejected, never committed, never repeated, never answered with 200.
StaleWriteNeverCommitted ==
  \A i \in Req :
    stale[i] =>
      /\ Done(i)
      /\ ~committed[i]
      /\ ~Ok(putR[i])
      /\ Cardinality(Puts(i)) = 1
      /\ res[i].status # 200

\* C3: the PUT of a POST carries exactly the sha its own metadata fetch
\* returned when that fetch returned one; and a metadata fetch that returns a
\* non-success status ends the request with that status and without any PUT.
C3_PutCarriesFetchedSha ==
  \A i \in Req :
    /\ \A k \in Puts(i) :
         metaR[i].sha # NoSha =>
           /\ "sha" \in DOMAIN calls[i][k].body
           /\ calls[i][k].body.sha = metaR[i].sha
    /\ (Settled(metaR[i]) /\ ~Ok(metaR[i])) =>
         /\ Puts(i) = {}
         /\ Done(i)
         /\ res[i].status = metaR[i].status

C3_Witness ==
  \E i, j \in Req :
    /\ \E k \in Puts(i) :
         /\ metaR[i].sha # NoSha
         /\ calls[i][k].body.sha = metaR[i].sha
    /\ Done(j) /\ Settled(metaR[j]) /\ ~Ok(metaR[j])
    /\ Puts(j) = {} /\ res[j].status = metaR[j].status

\* C4: with the token or the repository missing, every started request, of any
\* method, is answered 500 and has made no outbound call.
C4_MissingEnvIs500 ==
  ~RequiredEnvPresent =>
    \A i \in Req :
      /\ calls[i] = <<>>
      /\ inflight[i] = 0
      /\ Started(i) => (Done(i) /\ res[i].status = 500)

C4_Witness ==
  /\ ~RequiredEnvPresent
  /\ \E i, j \in Req :
       /\ Done(i) /\ req[i].method = "POST" /\ res[i].status = 500
       /\ Done(j) /\ req[j].method = "DELETE" /\ res[j].status = 500

\* C5: whenever an outbound call of a request (content GET, metadata GET or
\* PUT) returns a non-success status, the caller's response carries that
\* status, and no call is issued twice.
C5_UpstreamStatusRelayed ==
  \A i \in Req :
    /\ Cardinality(Puts(i)) <= 1
    /\ Len(calls[i]) - Cardinality(Puts(i)) <= 1
    /\ (Settled(r[i]) /\ ~Ok(r[i])) => res[i].status = r[i].status
    /\ (Settled(metaR[i]) /\ ~Ok(metaR[i])) => res[i].status = metaR[i].status
    /\ (Settled(putR[i]) /\ ~Ok(putR[i])) => res[i].status = putR[i].status

\* C6: a finished POST either replaced the remote document and was answered
\* 200, or left it alone and was answered with another status.
C6_NoPartialFailure ==
  \A i \in Req :
    (Done(i) /\ req[i].method = "POST") =>
      \/ /\ committed[i]
         /\ res[i].status = 200
         /\ lastWrite = i => remote.content = JSONStringify(req[i].body)
      \/ /\ ~committed[i]
         /\ res[i].status # 200

\* A finished GET that began and was served when the last committed write was
\* the POST p, which was answered 200.
ReadsBack(g, p) ==
  /\ Done(g) /\ req[g].method = "GET" /\ RequiredEnvPresent
  /\ startedAfter[g] = p /\ readAfter[g] = p
  /\ req[p].method = "POST" /\ res[p].status = 200

\* C7 as stated: after a POST of d answered 200 and no later write, a GET is
\* answered 200 with body d.
C7_RoundTripAlways ==
  \A g \in Req : \A p \in Req :
    ReadsBack(g, p) => (res[g].status = 200 /\ res[g].body = req[p].body)

\* C7 as amended: after a POST of d answered 200 and no later write, a GET
\* whose upstream fetch returns a success status is answered 200 with body d.
C7_RoundTrip ==
  \A g \in Req : \A p \in Req :
    (ReadsBack(g, p) /\ Settled(r[g]) /\ Ok(r[g]))
      => (res[g].status = 200 /\ res[g].body = req[p].body)

C7_Witness ==
  \E g \in Req : \E p \in Req :
    /\ ReadsBack(g, p) /\ Ok(r[g])
    /\ req[p].body = NestedDoc
    /\ res[g].body = NestedDoc

\* The texts a content GET can fetch: those of the documents, which are JSON,
\* and the others, which are not.
JsonDocs == Docs \cup {DirListingDoc}
NonJsonTexts == {HelloText, TruncatedText, <<>>}

\* C8: a GET whose upstream fetch succeeds is always answered 200: with the
\* document when the fetched text is the text of one, with {raw: text}, the
\* text as fetched, when it is not JSON.
C8_GetIsParsedOrRaw ==
  \A i \in Req :
    (Settled(r[i]) /\ Ok(r[i])) =>
      /\ Done(i)
      /\ res[i].status = 200
      /\ \A d \in JsonDocs : r[i].text = JSONStringify(d) => res[i].body = d
      /\ r[i].text \in NonJsonTexts => res[i].body = [raw |-> r[i].text]
      /\ \/ r[i].text \in NonJsonTexts
         \/ \E d \in JsonDocs : r[i].text = JSONStringify(d)

C8_Witness ==
  \E i \in Req :
    /\ Settled(r[i]) /\ Ok(r[i])
    /\ r[i].text = TruncatedText
    /\ remote.content = TruncatedText
    /\ res[i] = Send(200, {}, [raw |-> TruncatedText])

\* C9 as stated: every request whose method is neither GET nor POST is
\* answered 405 with the header Allow: GET,POST.
C9_OtherMethodIs405Always ==
  \A i \in Req :
    (Started(i) /\ req[i].method \notin {"GET", "POST"}) =>
      /\ Done(i)
      /\ res[i].status = 405
      /\ <<"Allow", "GET,POST">> \in res[i].headers

\* C9 as amended: with the token and the repository configured, every request
\* whose method is neither GET nor POST is answered 405 with the header
\* Allow: GET,POST.
C9_OtherMethodIs405 ==
  \A i \in Req :
    (RequiredEnvPresent /\ Started(i) /\ req[i].method \notin {"GET", "POST"}) =>
      /\ Done(i)
      /\ res[i].status = 405
      /\ <<"Allow", "GET,POST">> \in res[i].headers

C9_Witness ==
  \E i \in Req :
    /\ RequiredEnvPresent
    /\ req[i].method = "DELETE"
    /\ res[i].status = 405

\* The outbound calls of one request are sequential and at most two: a GET
\* makes at most one, a POST the metadata GET and then at most one PUT.
CallsInOrder(i) ==
  /\ Len(calls[i]) <= 2
  /\ inflight[i] <= 1
  /\ req[i].method = "GET" => Len(calls[i]) <= 1
  /\ Len(calls[i]) >= 1 =>
       calls[i][1] = (IF req[i].method = "GET" THEN FetchContent ELSE FetchMeta)
  /\ Puts(i) \subseteq {2}
  /\ Puts(i) # {} => req[i].method = "POST"

\* C10 as stated: calls are sequential and at most two, and the PUT is issued
\* only after the metadata fetch has completed and yielded a sha.
C10_PutOnlyAfterToken ==
  \A i \in Req :
    /\ CallsInOrder(i)
    /\ Puts(i) # {} => (Settled(metaR[i]) /\ metaR[i].sha # NoSha)

\* C10 as amended: calls are sequential and at most two, and the PUT is issued
\* only after the metadata fetch has completed with a success status (it may
\* have yielded no sha: the PUT then carries none).
C10_PutOnlyAfterMetadata ==
  \A i \in Req :
    /\ CallsInOrder(i)
    /\ Puts(i) # {} => (Settled(metaR[i]) /\ Ok(metaR[i]))

C10_Witness ==
  \E i \in Req :
    /\ pc[i] = "awaitPut"
    /\ inflight[i] = 1
    /\ Len(calls[i]) = 2
    /\ metaR[i].sha = NoSha
    /\ "sha" \notin DOMAIN calls[i][2].body

====
